---- MODULE Spec2Model ----
(***************************************************************************)
(* Model of the bless-bot ping automation (src/blessnetwork.js).           *)
(*                                                                         *)
(* JavaScript runs every handler to completion: between two suspension     *)
(* points (an awaited HTTP attempt or an awaited Utils.sleep timer) the    *)
(* code of one async call runs without interleaving.  Every action below   *)
(* is therefore one resumption of one async call, run up to its next       *)
(* suspension point, and start() and stop() are calls made from outside    *)
(* (tests, the signal handlers of main) between such resumptions.          *)
(*                                                                         *)
(* The specifications share the operators that model the code:             *)
(*   Spec      PingAutomation: start() invocations, the loop, stop().      *)
(*   SpecLive  Spec, with every awaited request and timer completing.      *)
(*   SpecCall  one call of ApiClient.healthCheck, NodeManager.getNodes or  *)
(*             NodeManager.pingNode on its own, with the history of its    *)
(*             attempts and sleeps recorded.                               *)
(*   SpecTrunc calls of Utils.truncateString.                              *)
(***************************************************************************)
EXTENDS Integers, Sequences, FiniteSets, TLC

VARIABLES
    isRunning,   \* PingAutomation.isRunning
    accounts,    \* AccountManager.accounts
    loops,       \* the start() invocations: one record per invocation slot
    stops,       \* stop() calls made since the flag was last set, for observation
    req,         \* SpecCall: the single API call under observation
    trunc        \* SpecTrunc: the latest call of truncateString

vars == <<isRunning, accounts, loops, stops, req, trunc>>

----------------------------------------------------------------------------
(* Bounds and program constants *)

\* longest node list a GET /api/v1/nodes response carries in the model
MaxNodes == 2

\* makeRequest: `if (retries < 3)`
MaxRetries == 3

\* makeRequest: `await Utils.sleep(5000)`
RetryDelayMs == 5000

\* start: `await Utils.sleep(10000)`
UnhealthyDelayMs == 10000

\* start: `intervalMinutes = 5`
DefaultIntervalMinutes == 5

\* stop() calls in a row the model counts
MaxStops == 2

\* longest string and longest prefix length handed to truncateString
MaxStrLen == 4

\* the start() invocations that may be pending at the same time
Loops == {"L1", "L2"}

----------------------------------------------------------------------------
(* JSON values the server may answer with.  A body is an object with an    *)
(* optional status field, null, or an array of nodes.  A node is tagged by *)
(* what the loop does with it: "str" an object whose pubKey is a string    *)
(* (or is missing: the loop treats both alike), "num" an object whose      *)
(* pubKey is a number, "null" a null array element.  The loop body throws  *)
(* on "num" and on "null" and never reads the elements after the one it    *)
(* throws on, so the arrays of the model end at the first such element.    *)

NodeKinds == {"str", "num", "null"}

Obj(status) == [kind |-> "object", status |-> status, items |-> <<>>]

Null == [kind |-> "null", status |-> "undefined", items |-> <<>>]

Arr(items) == [kind |-> "array", status |-> "undefined", items |-> items]

SeqsUpTo(S, n) == UNION {[1..k -> S] : k \in 0..n}

StatusBodies == {Obj("ok"), Obj("down"), Obj("undefined"), Null}

NodeLists ==
    {ns \in SeqsUpTo(NodeKinds, MaxNodes) : \A i \in 1..(Len(ns) - 1) : ns[i] = "str"}

NodesBodies == {Arr(ns) : ns \in NodeLists} \cup {Obj("down"), Null}

Methods == {"health", "nodes", "ping"}

Bodies(method) == IF method = "nodes" THEN NodesBodies ELSE StatusBodies

\* what the transport hands to the response interceptors for one attempt of
\* a method's request: an answer 2xx with a body, an answer with another
\* status, or no answer (network error, timeout)
RawOutcomes ==
    [method \in Methods |->
        {[type |-> "2xx", status |-> 200, data |-> b] : b \in Bodies(method)}
        \cup {[type |-> "status", status |-> s, data |-> Obj("down")] : s \in {404, 500}}
        \cup {[type |-> "network", status |-> 0, data |-> Null]}]

NoError == [name |-> "none", status |-> 0]

\* ApiClient constructor, response interceptor: a 2xx response passes, an
\* error with a response becomes `API Error: <status> - <data>`, any other
\* error is rethrown as it is
ResponseInterceptor(raw) ==
    IF raw.type = "2xx"
    THEN [ok |-> TRUE, data |-> raw.data, error |-> NoError]
    ELSE IF raw.type = "status"
    THEN [ok |-> FALSE, data |-> Null, error |-> [name |-> "API Error", status |-> raw.status]]
    ELSE [ok |-> FALSE, data |-> Null, error |-> [name |-> "Network Error", status |-> 0]]

----------------------------------------------------------------------------
(* ApiClient and NodeManager.  A call's result is [t, value]: t = "return" *)
(* with the value returned, or t = "throw".                                *)

\* a retry test that is off by one
ShouldRetryOffByOne(retries) == retries <= MaxRetries

\* a makeRequest that gives up at the first failure
ShouldRetryNever(retries) == FALSE

\* makeRequest, `if (retries < 3)`: whether a failed attempt is retried
ShouldRetry(retries) == retries < MaxRetries

\* a makeRequest that gives up at once on a 4xx answer
MakeRequestAttemptNoRetry4xx(retries, response) ==
    IF response.ok
    THEN [t |-> "return", data |-> response.data, error |-> NoError]
    ELSE IF retries < MaxRetries /\ response.error.status # 404
    THEN [t |-> "retry", data |-> Null, error |-> response.error]
    ELSE [t |-> "throw", data |-> Null, error |-> response.error]

\* makeRequest, one pass through its try/catch with the attempt's outcome:
\* return the body, retry after the sleep, or throw the attempt's error
MakeRequestAttempt(retries, response) ==
    IF response.ok
    THEN [t |-> "return", data |-> response.data, error |-> NoError]
    ELSE IF ShouldRetry(retries)
    THEN [t |-> "retry", data |-> Null, error |-> response.error]
    ELSE [t |-> "throw", data |-> Null, error |-> response.error]

\* `response.status === 'ok'` on a body: reading a property of null throws
StatusIsOk(body) ==
    IF body.kind = "null" THEN [t |-> "throw", value |-> FALSE]
    ELSE [t |-> "return", value |-> body.status = "ok"]

\* the try block of healthCheck and of pingNode, makeRequest settled with mr
StatusTry(mr) ==
    IF mr.t = "throw" THEN [t |-> "throw", value |-> FALSE] ELSE StatusIsOk(mr.data)

\* a healthCheck without its catch
HealthCheckNoCatch(mr) == StatusTry(mr)

\* healthCheck: the catch logs and returns false
HealthCheck(mr) ==
    IF StatusTry(mr).t = "throw" THEN [t |-> "return", value |-> FALSE] ELSE StatusTry(mr)

\* the try block of getNodes, makeRequest settled with mr
GetNodesTry(mr) ==
    IF mr.t = "throw" THEN [t |-> "throw", value |-> Null]
    ELSE [t |-> "return", value |-> mr.data]

\* a getNodes without its catch
GetNodesNoCatch(mr) == GetNodesTry(mr)

\* getNodes: the catch logs and returns []
GetNodes(mr) ==
    IF GetNodesTry(mr).t = "throw" THEN [t |-> "return", value |-> Arr(<<>>)]
    ELSE GetNodesTry(mr)

\* a pingNode that takes any answered request for a success
PingNodeAnyAnswer(mr) ==
    IF mr.t = "throw" THEN [t |-> "return", value |-> FALSE]
    ELSE [t |-> "return", value |-> TRUE]

\* pingNode: the catch logs and returns false
PingNode(mr) ==
    IF StatusTry(mr).t = "throw" THEN [t |-> "return", value |-> FALSE] ELSE StatusTry(mr)

----------------------------------------------------------------------------
(* AccountManager *)

\* what fs.readFileSync("data.txt") may give: it throws, or the file's lines
\* (the text split at "\n")
FileReads ==
    {[ok |-> FALSE, lines |-> <<>>],
     [ok |-> TRUE, lines |-> <<"a", "", " b">>],
     [ok |-> TRUE, lines |-> <<" b ", " ">>],
     [ok |-> TRUE, lines |-> <<"">>]}

\* String.prototype.trim on the lines above
Trim(line) ==
    IF line \in {" b", " b ", "b "} THEN "b"
    ELSE IF line \in {" a", " a ", "a "} THEN "a"
    ELSE IF line \in {" ", "  "} THEN ""
    ELSE line

NonEmpty(line) == line # ""

\* a loadAccounts whose catch reports success
LoadAccountsSwallowsError(read) ==
    IF read.ok
    THEN [ok |-> TRUE,
          accounts |-> SelectSeq([i \in 1..Len(read.lines) |-> Trim(read.lines[i])], NonEmpty)]
    ELSE [ok |-> TRUE, accounts |-> <<>>]

\* loadAccounts: the trimmed non-empty lines, or failure when the read throws
LoadAccounts(read) ==
    IF read.ok
    THEN [ok |-> TRUE,
          accounts |-> SelectSeq([i \in 1..Len(read.lines) |-> Trim(read.lines[i])], NonEmpty)]
    ELSE [ok |-> FALSE, accounts |-> <<>>]

----------------------------------------------------------------------------
(* PingAutomation: one start() invocation.                                 *)
(*   pc        where the invocation is suspended: "attempt" (an HTTP       *)
(*             attempt of makeRequest is awaited), "retrySleep",           *)
(*             "unhealthySleep", "intervalSleep"; "idle" before the call,  *)
(*             "returned" after it                                         *)
(*   call      the API call makeRequest is serving                         *)
(*   retries   makeRequest's retries parameter                             *)
(*   ms        the delay of the timer awaited, 0 when none                 *)
(*   isHealthy the iteration's `const isHealthy`                           *)
(*   todo      the accounts the for-of iterator has not finished, the      *)
(*             current one first                                           *)
(*   nodes     the nodes the inner for-of has not finished                 *)
(*   ret       why start() returned                                        *)
(*   read      what the invocation's read of the accounts file gave        *)
(* and what the invocation's latest resumption did, for observation:       *)
(*   from      the API call whose makeRequest settled in it, if one did    *)
(*   settled   how that makeRequest ended: "return" or "throw"             *)
(*   threw     whether the catch around processAccount handled an error    *)
(*   pinged    what pingNode returned in it: "true", "false" or "none"     *)
(*   logged    the level of the outcome line it logged, or "none"          *)

IdleLoop ==
    [pc |-> "idle", call |-> "none", retries |-> 0, ms |-> 0, isHealthy |-> "unset",
     todo |-> <<>>, nodes |-> <<>>, ret |-> "none", read |-> "none",
     from |-> "none", settled |-> "none", threw |-> FALSE,
     pinged |-> "none", logged |-> "none"]

Returned(why) == [IdleLoop EXCEPT !.pc = "returned", !.ret = why]

Suspended == {"attempt", "retrySleep", "unhealthySleep", "intervalSleep"}

Free(l) == l.pc \in {"idle", "returned"}

\* a resumption starts: nothing observed yet
Resume(l) ==
    [l EXCEPT !.from = "none", !.settled = "none", !.threw = FALSE,
              !.pinged = "none", !.logged = "none"]

\* makeRequest entered with the default retries = 0: the first attempt is awaited
BeginRequest(l, method) ==
    [l EXCEPT !.pc = "attempt", !.call = method, !.retries = 0, !.ms = 0]

\* start, `intervalMinutes * 60 * 1000`
IntervalMs(intervalMinutes) == intervalMinutes * 60 * 1000

\* start, the for-of over the accounts: processAccount of the next account runs
\* to its first await (getNodes), or the loop goes on to the interval sleep
NextAccount(l) ==
    IF l.todo = <<>>
    THEN [l EXCEPT !.pc = "intervalSleep", !.call = "none", !.retries = 0,
                   !.ms = IntervalMs(DefaultIntervalMinutes), !.nodes = <<>>]
    ELSE BeginRequest([l EXCEPT !.nodes = <<>>], "nodes")

\* a loop whose try/catch is around the whole for-of: an error ends the pass
AccountThrewEndsPass(l) ==
    [l EXCEPT !.pc = "intervalSleep", !.call = "none", !.retries = 0,
              !.ms = IntervalMs(DefaultIntervalMinutes), !.nodes = <<>>,
              !.todo = <<>>, !.threw = TRUE]

\* start, the catch around processAccount: log, go on with the next account
AccountThrew(l) ==
    NextAccount([l EXCEPT !.todo = Tail(l.todo), !.threw = TRUE])

\* processAccount returned
AccountDone(l) ==
    NextAccount([l EXCEPT !.todo = Tail(l.todo)])

\* processAccount, the head of `for (const node of nodes)`: `node.pubKey` of a
\* null element throws; else pingNode runs to its await
NextNode(l) ==
    IF l.nodes = <<>> THEN AccountDone(l)
    ELSE IF Head(l.nodes) = "null" THEN AccountThrew(l)
    ELSE BeginRequest(l, "ping")

\* processAccount after `await getNodes`: iterating a value that is no array throws
AfterGetNodes(l, r) ==
    IF r.t = "throw" THEN AccountThrew(l)
    ELSE IF r.value.kind # "array" THEN AccountThrew(l)
    ELSE NextNode([l EXCEPT !.nodes = r.value.items])

\* Utils.truncateString(nodeId, 10): `str.substr` of a number throws
TruncateThrows(node) == node = "num"

\* processAccount after `await pingNode`: build the message, log it, next node
AfterPing(l, r) ==
    IF r.t = "throw" THEN AccountThrew(l)
    ELSE LET got == [l EXCEPT !.pinged = IF r.value THEN "true" ELSE "false"]
         IN IF TruncateThrows(Head(l.nodes)) THEN AccountThrew(got)
            ELSE NextNode([got EXCEPT !.nodes = Tail(l.nodes),
                                      !.logged = IF r.value THEN "success" ELSE "error"])

\* a performHealthCheck that throws when the API is unhealthy
PerformHealthCheckThrows(r) ==
    IF r.t = "throw" \/ ~r.value THEN [t |-> "throw", value |-> FALSE]
    ELSE [t |-> "return", value |-> TRUE]

\* performHealthCheck: false when healthCheck gave false, else true
PerformHealthCheck(r) ==
    IF r.t = "throw" THEN r ELSE [t |-> "return", value |-> r.value]

\* a loop that never skips a cycle
SkipCycleNever(isHealthy) == FALSE

\* start, `if (!isHealthy)`
SkipCycle(isHealthy) == ~isHealthy

\* start after `await performHealthCheck()`: sleep 10 s and continue, or go
\* through the accounts; an error here would reject start()
AfterHealth(l, r, accts) ==
    IF r.t = "throw" THEN Returned("rejected")
    ELSE LET got == [l EXCEPT !.isHealthy = IF r.value THEN "yes" ELSE "no"]
         IN IF SkipCycle(r.value)
            THEN [got EXCEPT !.pc = "unhealthySleep", !.call = "none", !.retries = 0,
                             !.ms = UnhealthyDelayMs]
            ELSE NextAccount([got EXCEPT !.todo = accts])

\* a loop that never looks at the flag
LoopConditionForever(running) == TRUE

\* start, `while (this.isRunning)`
LoopCondition(running) == running

\* start, the top of the while loop
LoopTop(l, running) ==
    IF LoopCondition(running)
    THEN BeginRequest([l EXCEPT !.isHealthy = "unset", !.todo = <<>>, !.nodes = <<>>],
                      "health")
    ELSE Returned("stopped")

\* the caller of makeRequest resumed with the settled result mr
Settled(l, mr, accts) ==
    IF l.call = "health" THEN AfterHealth(l, PerformHealthCheck(HealthCheck(mr)), accts)
    ELSE IF l.call = "nodes" THEN AfterGetNodes(l, GetNodes(mr))
    ELSE AfterPing(l, PingNode(mr))

\* a start() without its guard
AlreadyRunningUnchecked(running) == FALSE

\* start, `if (this.isRunning)`
AlreadyRunning(running) == running

----------------------------------------------------------------------------
(* Actions of Spec *)

\* start() is called: it runs to its first await or returns
Start(p) ==
    /\ Free(loops[p])
    /\ IF AlreadyRunning(isRunning)
       THEN /\ loops' = [loops EXCEPT ![p] = Returned("alreadyRunning")]
            /\ UNCHANGED <<isRunning, accounts, stops>>
       ELSE \E read \in FileReads :
                LET loaded == LoadAccounts(read)
                    seen == IF read.ok THEN "ok" ELSE "failed"
                IN IF ~loaded.ok
                   THEN /\ loops' = [loops EXCEPT ![p] =
                               [Returned("loadFailed") EXCEPT !.read = seen]]
                        /\ UNCHANGED <<isRunning, accounts, stops>>
                   ELSE /\ accounts' = loaded.accounts
                        /\ isRunning' = TRUE
                        /\ stops' = 0
                        /\ loops' = [loops EXCEPT ![p] =
                               LoopTop([IdleLoop EXCEPT !.read = seen], TRUE)]
    /\ UNCHANGED <<req, trunc>>

\* a stop() that flips the flag
StopFlagToggles(running) == ~running

\* stop, `this.isRunning = false`
StopFlag(running) == FALSE

\* stop() is called
Stop ==
    /\ isRunning' = StopFlag(isRunning)
    /\ stops' = IF stops < MaxStops THEN stops + 1 ELSE stops
    /\ UNCHANGED <<accounts, loops, req, trunc>>

\* a loop that looks at the flag after every request and returns when it is false
AttemptDoneHonoursStop(p) ==
    /\ loops[p].pc = "attempt"
    /\ \E raw \in RawOutcomes[loops[p].call] :
           LET l == Resume(loops[p])
               mr == MakeRequestAttempt(l.retries, ResponseInterceptor(raw))
           IN loops' = [loops EXCEPT ![p] =
                  IF ~isRunning THEN Returned("stopped")
                  ELSE IF mr.t = "retry"
                  THEN [l EXCEPT !.pc = "retrySleep", !.ms = RetryDelayMs]
                  ELSE Settled([l EXCEPT !.from = l.call, !.settled = mr.t], mr, accounts)]
    /\ UNCHANGED <<isRunning, accounts, stops, req, trunc>>

\* the HTTP attempt a loop awaits completes, with any outcome
AttemptDone(p) ==
    /\ loops[p].pc = "attempt"
    /\ \E raw \in RawOutcomes[loops[p].call] :
           LET l == Resume(loops[p])
               mr == MakeRequestAttempt(l.retries, ResponseInterceptor(raw))
           IN loops' = [loops EXCEPT ![p] =
                  IF mr.t = "retry"
                  THEN [l EXCEPT !.pc = "retrySleep", !.ms = RetryDelayMs]
                  ELSE Settled([l EXCEPT !.from = l.call, !.settled = mr.t], mr, accounts)]
    /\ UNCHANGED <<isRunning, accounts, stops, req, trunc>>

\* the retry timer fires: makeRequest calls itself with retries + 1
RetrySleepDone(p) ==
    /\ loops[p].pc = "retrySleep"
    /\ loops' = [loops EXCEPT ![p] =
           [Resume(@) EXCEPT !.pc = "attempt", !.retries = @ + 1, !.ms = 0]]
    /\ UNCHANGED <<isRunning, accounts, stops, req, trunc>>

\* a loop that gives up after an unhealthy check: it clears the flag and returns
UnhealthySleepDoneGivesUp(p) ==
    /\ loops[p].pc = "unhealthySleep"
    /\ loops' = [loops EXCEPT ![p] = Returned("stopped")]
    /\ isRunning' = FALSE
    /\ UNCHANGED <<accounts, stops, req, trunc>>

\* a loop whose `continue` goes back to the health check, not to the loop condition
UnhealthySleepDoneSkipsCondition(p) ==
    /\ loops[p].pc = "unhealthySleep"
    /\ loops' = [loops EXCEPT ![p] = LoopTop(Resume(@), TRUE)]
    /\ UNCHANGED <<isRunning, accounts, stops, req, trunc>>

\* the 10 s timer fires: `continue`
UnhealthySleepDone(p) ==
    /\ loops[p].pc = "unhealthySleep"
    /\ loops' = [loops EXCEPT ![p] = LoopTop(Resume(@), isRunning)]
    /\ UNCHANGED <<isRunning, accounts, stops, req, trunc>>

\* the interval timer fires: the loop body ends
IntervalSleepDone(p) ==
    /\ loops[p].pc = "intervalSleep"
    /\ loops' = [loops EXCEPT ![p] = LoopTop(Resume(@), isRunning)]
    /\ UNCHANGED <<isRunning, accounts, stops, req, trunc>>

----------------------------------------------------------------------------
(* SpecCall: one call of healthCheck ("health"), getNodes ("nodes") or     *)
(* pingNode ("ping") made on its own.                                      *)
(*   outs    what each completed attempt gave, after the interceptors      *)
(*   trace   the attempts issued and the sleeps started, in order          *)
(*   mr      how makeRequest settled                                       *)
(*   ret     what the method gave its caller: retT, and retBool for        *)
(*           healthCheck and pingNode, retBody for getNodes                *)

AttemptEvent == [ev |-> "attempt", ms |-> 0]

SleepEvent(ms) == [ev |-> "sleep", ms |-> ms]

IdleCall ==
    [method |-> "none", pc |-> "idle", retries |-> 0, outs |-> <<>>, trace |-> <<>>,
     mr |-> [t |-> "none", data |-> Null, error |-> NoError],
     retT |-> "none", retBool |-> FALSE, retBody |-> Null]

\* the method is called: makeRequest issues its first attempt
CallStart(m) ==
    /\ req.pc \in {"idle", "done"}
    /\ req' = [IdleCall EXCEPT !.method = m, !.pc = "attempt", !.trace = <<AttemptEvent>>]
    /\ UNCHANGED <<isRunning, accounts, loops, stops, trunc>>

\* the attempt completes, with any outcome: retry, or settle and hand the
\* method's result to the caller
CallAttemptDone ==
    /\ req.pc = "attempt"
    /\ \E raw \in RawOutcomes[req.method] :
           LET response == ResponseInterceptor(raw)
               mr == MakeRequestAttempt(req.retries, response)
               seen == [req EXCEPT !.outs = Append(@, response)]
           IN req' =
                  IF mr.t = "retry"
                  THEN [seen EXCEPT !.pc = "retrySleep",
                                    !.trace = Append(@, SleepEvent(RetryDelayMs))]
                  ELSE IF req.method = "nodes"
                  THEN [seen EXCEPT !.pc = "done", !.mr = mr,
                                    !.retT = GetNodes(mr).t, !.retBody = GetNodes(mr).value]
                  ELSE IF req.method = "health"
                  THEN [seen EXCEPT !.pc = "done", !.mr = mr,
                                    !.retT = HealthCheck(mr).t,
                                    !.retBool = HealthCheck(mr).value]
                  ELSE [seen EXCEPT !.pc = "done", !.mr = mr,
                                    !.retT = PingNode(mr).t, !.retBool = PingNode(mr).value]
    /\ UNCHANGED <<isRunning, accounts, loops, stops, trunc>>

\* the retry timer fires: makeRequest calls itself with retries + 1
CallSleepDone ==
    /\ req.pc = "retrySleep"
    /\ req' = [req EXCEPT !.pc = "attempt", !.retries = @ + 1,
                          !.trace = Append(@, AttemptEvent)]
    /\ UNCHANGED <<isRunning, accounts, loops, stops, trunc>>

----------------------------------------------------------------------------
(* SpecTrunc: Utils.truncateString(str, length).  A string is the sequence *)
(* of its characters; str is a string or is missing (undefined).           *)

Chars == {"k", "."}

Strings == SeqsUpTo(Chars, MaxStrLen)

Str(chars) == [kind |-> "string", chars |-> chars]

Undefined == [kind |-> "undefined", chars |-> <<>>]

TruncInputs == {Str(cs) : cs \in Strings} \cup {Undefined}

Ellipsis == <<".", ".", ".">>

Unknown == <<"u", "n", "k", "n", "o", "w", "n">>

\* `str ? ... : ...`: undefined and the empty string are falsy
Truthy(str) == str.kind = "string" /\ str.chars # <<>>

\* String.prototype.substr(0, length)
Substr0(chars, length) ==
    SubSeq(chars, 1, IF length < Len(chars) THEN length ELSE Len(chars))

\* a truncateString that marks only the strings it cuts
TruncateStringMarksCutsOnly(str, length) ==
    IF ~Truthy(str) THEN Unknown
    ELSE IF Len(str.chars) <= length THEN str.chars
    ELSE Substr0(str.chars, length) \o Ellipsis

\* truncateString: `str ? str.substr(0, length) + "..." : "unknown"`
TruncateString(str, length) ==
    IF Truthy(str) THEN Substr0(str.chars, length) \o Ellipsis ELSE Unknown

IdleTrunc == [called |-> FALSE, str |-> Undefined, length |-> 0, out |-> <<>>]

\* truncateString is called with any string, or none, and any prefix length
TruncCall ==
    /\ \E str \in TruncInputs, length \in 0..MaxStrLen :
           trunc' = [called |-> TRUE, str |-> str, length |-> length,
                     out |-> TruncateString(str, length)]
    /\ UNCHANGED <<isRunning, accounts, loops, stops, req>>

----------------------------------------------------------------------------
(* Specifications *)

Init ==
    /\ isRunning = FALSE
    /\ accounts = <<>>
    /\ loops = [p \in Loops |-> IdleLoop]
    /\ stops = 0
    /\ req = IdleCall
    /\ trunc = IdleTrunc

Next ==
    \/ \E p \in Loops : Start(p)
    \/ Stop
    \/ \E p \in Loops : AttemptDone(p)
    \/ \E p \in Loops : RetrySleepDone(p)
    \/ \E p \in Loops : UnhealthySleepDone(p)
    \/ \E p \in Loops : IntervalSleepDone(p)

Spec == Init /\ [][Next]_vars

NextCall ==
    \/ \E m \in Methods : CallStart(m)
    \/ CallAttemptDone
    \/ CallSleepDone

SpecCall == Init /\ [][NextCall]_vars

NextTrunc == TruncCall

SpecTrunc == Init /\ [][NextTrunc]_vars

\* every request ends (axios has a 30 s timeout) and every timer fires
Fairness ==
    \A p \in Loops :
        /\ WF_vars(AttemptDone(p))
        /\ WF_vars(RetrySleepDone(p))
        /\ WF_vars(UnhealthySleepDone(p))
        /\ WF_vars(IntervalSleepDone(p))

SpecLive == Spec /\ Fairness

----------------------------------------------------------------------------
(* Claims about one API call (SpecCall) *)

AttemptsIssued == Cardinality({i \in 1..Len(req.trace) : req.trace[i].ev = "attempt"})

\* C1: a logical call of makeRequest issues at most 4 HTTP attempts, whatever
\* the attempts' outcomes; the attempts and sleeps alternate, starting with an
\* attempt, so that exactly one sleep, of 5 seconds, lies between two
\* consecutive attempts; and a successful attempt is the call's last attempt.
C1_AttemptsBounded ==
    /\ AttemptsIssued <= 4
    /\ \A i \in 1..Len(req.trace) :
           IF i % 2 = 1
           THEN req.trace[i].ev = "attempt"
           ELSE req.trace[i].ev = "sleep" /\ req.trace[i].ms = 5000
    /\ \A i \in 1..Len(req.outs) : req.outs[i].ok => AttemptsIssued = i

\* a call that failed three times, slept three times and succeeded at its
\* fourth attempt
C1_Witness ==
    /\ req.pc = "done"
    /\ Len(req.outs) = 4
    /\ req.outs[4].ok
    /\ Len(req.trace) = 7

LastOut == req.outs[Len(req.outs)]

\* C6: healthCheck never raises, and it returns true exactly when the request
\* ended with a 2xx answer whose body has the status field "ok": a transport
\* error, a non-2xx answer or any other body gives false.
C6_HealthCheckTotal ==
    (req.method = "health" /\ req.pc = "done") =>
        /\ req.retT = "return"
        /\ req.retBool <=>
               (LastOut.ok /\ LastOut.data.kind # "null" /\ LastOut.data.status = "ok")

\* healthCheck gave false after its retries ran out on a transport error
C6_Witness ==
    /\ req.method = "health"
    /\ req.pc = "done"
    /\ req.mr.t = "throw"
    /\ LastOut.error.name = "Network Error"
    /\ req.retT = "return"
    /\ ~req.retBool

\* C7: makeRequest raises if and only if the initial attempt and the 3 retries
\* all failed, and then it raises the error of the 4th attempt; otherwise it
\* returns the body of the first successful attempt.  A failed attempt is
\* retried whenever fewer than 4 attempts were made, whatever the failure.
C7_RaisesIffExhausted ==
    LET n == Len(req.outs)
        failed == {i \in 1..n : ~req.outs[i].ok}
    IN /\ req.pc = "done" =>
              /\ req.mr.t \in {"return", "throw"}
              /\ (req.mr.t = "throw") <=> (n = 4 /\ failed = 1..4)
              /\ req.mr.t = "throw" => req.mr.error = req.outs[n].error
              /\ req.mr.t = "return" =>
                     /\ failed = 1..(n - 1)
                     /\ req.mr.data = req.outs[n].data
       /\ req.pc = "retrySleep" => (n <= 3 /\ failed = 1..n)
       /\ req.pc = "attempt" => failed = 1..n

\* makeRequest raised the 4th attempt's error after failures of every kind
C7_Witness ==
    /\ req.pc = "done"
    /\ req.mr.t = "throw"
    /\ Len(req.outs) = 4
    /\ req.outs[1].error.status = 404
    /\ req.outs[2].error.status = 500
    /\ req.outs[3].error.name = "Network Error"
    /\ req.mr.error = [name |-> "API Error", status |-> 500]

\* C9: pingNode never raises, and it returns true if and only if the request
\* ended with a 2xx answer whose body has the status field "ok"; a raised
\* error, retries run out included, gives false.
C9_PingNodeTrueIffOk ==
    (req.method = "ping" /\ req.pc = "done") =>
        /\ req.retT = "return"
        /\ req.retBool <=>
               (req.mr.t = "return" /\ req.mr.data.kind # "null"
                   /\ req.mr.data.status = "ok")
        /\ req.mr.t = "throw" => ~req.retBool

\* pingNode gave true at its second retry
C9_Witness ==
    /\ req.method = "ping"
    /\ req.pc = "done"
    /\ Len(req.outs) = 3
    /\ req.retBool

----------------------------------------------------------------------------
(* Claims about the automation (Spec) *)

Active(p) == loops[p].pc \in Suspended

\* C2: at most one start() loop is running at a time, whatever the
\* interleaving of start(), stop() and the loop's suspension points.
C2_AtMostOneLoop == Cardinality({p \in Loops : Active(p)}) <= 1

\* C3, as claimed: once stop() has cleared the flag, a loop that resumes
\* starts no new request and no new sleep: its next step is its exit.
C3_ExitsAtNextResumption ==
    [][\A p \in Loops :
          (Active(p) /\ ~isRunning /\ loops'[p] # loops[p])
              => loops'[p].pc = "returned"]_vars

\* C3, amended: stop() clears the flag and touches no loop; a loop looks at
\* the flag only at the top of the while loop, that is when its 10 s sleep or
\* its interval sleep ends, and it exits there if and only if the flag is
\* false then; a loop resumed anywhere else goes on with its iteration.
C3_ExitsAtLoopTop ==
    [][/\ (isRunning /\ ~isRunning') => loops' = loops
       /\ \A p \in Loops :
             LET l == loops[p]
                 m == loops'[p]
             IN (Active(p) /\ m # l) =>
                    IF l.pc \in {"unhealthySleep", "intervalSleep"}
                    THEN IF isRunning
                         THEN m.pc = "attempt" /\ m.call = "health"
                         ELSE m = Returned("stopped")
                    ELSE m.pc # "returned"]_vars

\* a loop has exited at the loop top after a stop()
C3_Witness ==
    /\ ~isRunning
    /\ \E p \in Loops : loops[p] = Returned("stopped")

\* C4: an iteration whose health check gave false sleeps 10 seconds and goes
\* back to the loop top; getNodes and pingNode are only called in an
\* iteration whose health check gave true.
C4_UnhealthySkipsTokens ==
    [][\A p \in Loops :
          LET l == loops[p]
              m == loops'[p]
          IN m # l =>
                 /\ m.isHealthy = "no" => (m.pc = "unhealthySleep" /\ m.ms = 10000)
                 /\ m.call \in {"nodes", "ping"} => m.isHealthy = "yes"
                 /\ l.pc = "unhealthySleep" =>
                        \/ m.pc = "returned"
                        \/ m.pc = "attempt" /\ m.call = "health" /\ m.todo = <<>>
                 /\ (m.from = "health" /\ m.pc = "unhealthySleep") =>
                        (m.todo = <<>> /\ m.nodes = <<>>)]_vars

\* a loop sleeps its 10 seconds after a health check that gave false
C4_Witness ==
    \E p \in Loops :
        /\ loops[p].pc = "unhealthySleep"
        /\ loops[p].isHealthy = "no"
        /\ loops[p].from = "health"
        /\ accounts # <<>>

\* C5: when processing an account throws, the flag is left as it is and the
\* loop goes on with the next account of the same pass, or with the interval
\* sleep after the last one; no step of a pass skips an account.
C5_ErrorDoesNotHaltPass ==
    [][\A p \in Loops :
          LET l == loops[p]
              m == loops'[p]
          IN /\ (m # l /\ m.threw) =>
                    /\ isRunning' = isRunning
                    /\ l.todo # <<>>
                    /\ m.todo = Tail(l.todo)
                    /\ IF m.todo = <<>>
                       THEN m.pc = "intervalSleep"
                       ELSE m.pc = "attempt" /\ m.call = "nodes" /\ m.retries = 0
             /\ (m # l /\ l.todo # <<>>) =>
                    /\ m.todo \in {l.todo, Tail(l.todo)}
                    /\ m.pc \in Suspended
                    /\ m.pc = "intervalSleep" <=> m.todo = <<>>]_vars

\* the first of two accounts threw and the second is being processed
C5_Witness ==
    \E p \in Loops :
        /\ loops[p].threw
        /\ loops[p].pc = "attempt"
        /\ loops[p].call = "nodes"
        /\ loops[p].todo = <<"b">>
        /\ accounts = <<"a", "b">>

\* C8: when the request of getNodes raises, its retries run out, getNodes
\* raises nothing and returns an empty list: the account's processing ends
\* without an error and without a ping, and the loop goes on with the next
\* account or the interval sleep.
C8_GetNodesNeverPropagates ==
    [][\A p \in Loops :
          LET l == loops[p]
              m == loops'[p]
          IN (m # l /\ m.from = "nodes" /\ m.settled = "throw") =>
                 /\ l.retries = 3
                 /\ ~m.threw
                 /\ m.todo = Tail(l.todo)
                 /\ m.call # "ping"
                 /\ IF m.todo = <<>>
                    THEN m.pc = "intervalSleep"
                    ELSE m.pc = "attempt" /\ m.call = "nodes"]_vars

\* getNodes of the first account failed for good, the second account is next
C8_Witness ==
    \E p \in Loops :
        /\ loops[p].from = "nodes"
        /\ loops[p].settled = "throw"
        /\ loops[p].pc = "attempt"
        /\ loops[p].call = "nodes"
        /\ loops[p].todo = <<"b">>

\* C10: start() called while the automation is running does nothing: the
\* accounts are not reloaded, the flag stays true, the call returns at once
\* without a request, and no other loop is touched.
C10_StartWhileRunningIsNoOp ==
    [][\A p \in Loops :
          (Free(loops[p]) /\ isRunning /\ loops'[p] # loops[p]) =>
              /\ accounts' = accounts
              /\ isRunning'
              /\ loops'[p] = Returned("alreadyRunning")
              /\ \A q \in Loops \ {p} : loops'[q] = loops[q]]_vars

\* a start() returned at once while a loop was running
C10_Witness ==
    /\ isRunning
    /\ \E p, q \in Loops :
           /\ loops[p] = Returned("alreadyRunning")
           /\ Active(q)


\* C11: a start() whose read of the accounts file fails returns at once: the
\* invocation never awaits (no health check, no request), the running flag
\* stays false and the accounts list is not assigned.
C11_LoadFailureStaysStopped ==
    [][\A p \in Loops :
          (loops'[p] # loops[p] /\ loops'[p].read = "failed") =>
              /\ loops'[p].pc = "returned"
              /\ loops'[p].ret = "loadFailed"
              /\ ~isRunning /\ ~isRunning'
              /\ accounts' = accounts
              /\ \A q \in Loops \ {p} : loops'[q] = loops[q]]_vars

C11_Witness ==
    \E p \in Loops : loops[p].read = "failed" /\ loops[p].pc = "returned" /\ ~isRunning

\* C12: a stop() called while the flag is false raises nothing and changes
\* nothing, so any number of such calls leaves the state one call leaves.
C12_StopWhileStoppedChangesNothing ==
    [][(~isRunning /\ stops' > stops) =>
          /\ ~isRunning'
          /\ accounts' = accounts
          /\ loops' = loops]_vars

C12_Witness == ~isRunning /\ stops = MaxStops

\* a loop step: a pending start() invocation is resumed
LoopStep(p) == Active(p) /\ loops'[p] # loops[p]

\* C13: no resumption of the loop changes the running flag or the accounts
\* list; the flag becomes true only in a start() that enters the loop and
\* false only in stop().
C13_FlagAndAccountsFrame ==
    [][/\ (\E p \in Loops : LoopStep(p)) =>
              (isRunning' = isRunning /\ accounts' = accounts)
       /\ (isRunning /\ ~isRunning') => (stops' = stops + 1 /\ loops' = loops)
       /\ (~isRunning /\ isRunning') =>
              \E p \in Loops : Free(loops[p]) /\ loops'[p].read = "ok"
                               /\ loops'[p].pc = "attempt"]_vars

C13_Witness ==
    \E p \in Loops :
        /\ isRunning
        /\ loops[p].pc = "intervalSleep"
        /\ loops[p].from = "ping"
        /\ Len(accounts) = 2

\* the suffix of a string, its last three characters
EndsWithEllipsis(out) ==
    Len(out) >= 3 /\ SubSeq(out, Len(out) - 2, Len(out)) = Ellipsis

\* C14 as stated: every result of truncateString, for an empty or missing
\* input too, ends with "..." and is at most length + 3 long.
C14_AlwaysEllipsis ==
    trunc.called =>
        /\ EndsWithEllipsis(trunc.out)
        /\ Len(trunc.out) <= trunc.length + 3

\* C14: for a non-empty string the result is its first `length` characters
\* followed by "...", so it ends with the marker and is at most length + 3
\* long; for an empty or missing input the result is "unknown".
C14_EllipsisUnlessEmpty ==
    trunc.called =>
        IF trunc.str.kind = "string" /\ Len(trunc.str.chars) > 0
        THEN /\ EndsWithEllipsis(trunc.out)
             /\ Len(trunc.out) <= trunc.length + 3
             /\ Len(trunc.out) = 3 +
                    (IF Len(trunc.str.chars) < trunc.length
                     THEN Len(trunc.str.chars) ELSE trunc.length)
             /\ \A i \in 1..(Len(trunc.out) - 3) : trunc.out[i] = trunc.str.chars[i]
        ELSE trunc.out = Unknown

C14_Witness ==
    /\ trunc.called
    /\ trunc.str.kind = "string"
    /\ Len(trunc.str.chars) > trunc.length
    /\ trunc.length > 0
    /\ trunc.out = Substr0(trunc.str.chars, trunc.length) \o Ellipsis

\* C15: if from some point on the flag stays false (stop() was called and no
\* later start() enters the loop), then, every awaited request and timer
\* completing, each pending loop reaches a loop-top check and returns; from
\* then on no invocation is pending and no request is awaited.
C15_StoppedLoopExits ==
    (<>[](~isRunning)) => (<>[](\A p \in Loops : ~Active(p)))

C15_Witness ==
    /\ ~isRunning
    /\ stops > 0
    /\ \A p \in Loops : ~Active(p)
    /\ \E p \in Loops : loops[p].pc = "returned" /\ loops[p].ret = "stopped"

\* C16: a stop() in the middle of a healthy cycle changes nothing in that
\* cycle.  With the flag false, a loop resumed from a request or a retry
\* sleep goes on as it would with the flag true: the retry is made, no
\* account and no node is dropped, it stays pending, and it reaches the
\* interval sleep only with every account done and for the full interval;
\* it returns only when the interval sleep ends.
C16_StopLeavesCycleWhole ==
    [][\A p \in Loops :
          LET l == loops[p]
              m == loops'[p]
          IN (~isRunning /\ LoopStep(p) /\ l.isHealthy = "yes") =>
                 /\ l.pc = "retrySleep" =>
                        /\ m.pc = "attempt" /\ m.call = l.call
                        /\ m.retries = l.retries + 1
                        /\ m.todo = l.todo /\ m.nodes = l.nodes
                 /\ l.pc = "attempt" =>
                        /\ m.pc \in {"attempt", "retrySleep", "intervalSleep"}
                        /\ m.pc = "retrySleep" =>
                               (m.call = l.call /\ m.todo = l.todo /\ m.nodes = l.nodes)
                        /\ m.todo \in {l.todo, Tail(l.todo)}
                        /\ (m.todo = l.todo /\ l.call = "ping") =>
                               m.nodes \in {l.nodes, Tail(l.nodes)}
                        /\ m.pc = "attempt" =>
                               /\ m.todo # <<>>
                               /\ m.call = IF m.nodes = <<>> THEN "nodes" ELSE "ping"
                        /\ m.pc = "intervalSleep" =>
                               /\ m.todo = <<>>
                               /\ m.ms = IntervalMs(DefaultIntervalMinutes)
                 /\ m.pc = "returned" =>
                        (l.pc = "intervalSleep" /\ m.ret = "stopped")]_vars

C16_Witness ==
    \E p \in Loops :
        /\ ~isRunning
        /\ stops > 0
        /\ loops[p].pc = "attempt"
        /\ loops[p].call = "ping"
        /\ loops[p].from = "nodes"
        /\ Len(accounts) = 2
        /\ Len(loops[p].todo) = 1
        /\ \A q \in Loops \ {p} : ~Active(q)

\* the requests awaited at this moment
InFlight == {p \in Loops : loops[p].pc = "attempt"}

\* C17: at most one HTTP request is in flight at any time, and each loop
\* works in order: a getNodes request is begun only for the first account
\* left (at the start of the pass or when the account before it is done),
\* a ping only for the first node left of the list getNodes returned for
\* that account, with no request for the next account before the last node
\* unless an error ended the account.
C17_SequentialOrdered ==
    /\ [](Cardinality(InFlight) <= 1)
    /\ [][\A p \in Loops :
             LET l == loops[p]
                 m == loops'[p]
             IN (LoopStep(p) /\ m.pc = "attempt" /\ l.pc = "attempt") =>
                    /\ m.call = "nodes" =>
                           /\ m.todo # <<>> /\ m.nodes = <<>>
                           /\ IF l.call = "health" THEN m.todo = accounts
                              ELSE m.todo = Tail(l.todo)
                           /\ (l.call = "ping" /\ ~m.threw) => Len(l.nodes) = 1
                    /\ m.call = "ping" =>
                           /\ m.todo = l.todo /\ m.nodes # <<>>
                           /\ l.call \in {"nodes", "ping"}
                           /\ l.call = "ping" => m.nodes = Tail(l.nodes)
                    /\ m.call # "health"]_vars

\* C18: every ping that returned is followed, in the same resumption, by
\* exactly one outcome line for that node, at success level if the ping
\* returned true and at error level if it returned false, and the loop goes
\* on with the next node of the list, or the next account after the last.
C18_OneLinePerNode ==
    [][\A p \in Loops :
          LET l == loops[p]
              m == loops'[p]
          IN (LoopStep(p) /\ m.from = "ping") =>
                 /\ m.pinged \in {"true", "false"}
                 /\ m.logged = IF m.pinged = "true" THEN "success" ELSE "error"
                 /\ ~m.threw
                 /\ IF Len(l.nodes) > 1
                    THEN m.todo = l.todo /\ m.nodes = Tail(l.nodes)
                    ELSE m.todo = Tail(l.todo)]_vars

\* C19: the health check is retried like every other call.  Its first
\* attempt is made with no retry counted.  A failed
\* attempt of it is followed by the 5 s retry sleep while fewer than three
\* retries were made, and each retry sleep by one more attempt; healthCheck
\* gives false on an error only at the fourth failed attempt, and only then
\* the 10 s sleep starts.  On a 2xx answer whose status is not "ok" it gives
\* false at once: the 10 s sleep starts in that resumption with no retry.
C19_HealthCheckRetries ==
    [][\A p \in Loops :
          LET l == loops[p]
              m == loops'[p]
          IN /\ (loops'[p] # loops[p] /\ l.call # "health" /\ m.call = "health") =>
                    (m.pc = "attempt" /\ m.retries = 0)
             /\ (LoopStep(p) /\ l.call = "health") =>
                 /\ l.pc = "attempt" =>
                        /\ m.pc = "retrySleep" =>
                               /\ l.retries < MaxRetries
                               /\ m.ms = RetryDelayMs
                               /\ m.retries = l.retries /\ m.call = "health"
                        /\ m.settled = "throw" =>
                               /\ l.retries = MaxRetries
                               /\ m.isHealthy = "no"
                               /\ m.pc = "unhealthySleep" /\ m.ms = UnhealthyDelayMs
                        /\ (m.settled = "return" /\ m.isHealthy = "no") =>
                               m.pc = "unhealthySleep" /\ m.ms = UnhealthyDelayMs
                        /\ m.pc = "unhealthySleep" => m.from = "health"
                        /\ m.pc \in {"retrySleep", "unhealthySleep"} \/ m.isHealthy = "yes"
                 /\ l.pc = "retrySleep" =>
                        /\ m.pc = "attempt" /\ m.call = "health"
                        /\ m.retries = l.retries + 1]_vars

C19_Witness ==
    \E p \in Loops :
        /\ loops[p].pc = "unhealthySleep"
        /\ loops[p].from = "health"
        /\ loops[p].settled = "throw"
        /\ loops[p].ms = UnhealthyDelayMs

\* C20: the loop never gives up on its own.  A pending loop resumed with
\* the flag true stays pending whatever failed; start() never rejects; it
\* returns only at its guard, on a failed load, or from a loop-top check that
\* finds the flag false; and the flag is cleared by no loop.
C20_LoopNeverGivesUp ==
    [][\A p \in Loops :
          LET l == loops[p]
              m == loops'[p]
          IN /\ (LoopStep(p) /\ isRunning) => (m.pc \in Suspended /\ isRunning')
             /\ (loops'[p] # loops[p] /\ m.pc = "returned") =>
                    \/ m.ret = "alreadyRunning" /\ Free(l) /\ isRunning
                    \/ m.ret = "loadFailed" /\ Free(l) /\ m.read = "failed"
                    \/ /\ m.ret = "stopped" /\ ~isRunning
                       /\ l.pc \in {"unhealthySleep", "intervalSleep"}]_vars

C20_Witness ==
    \E p \in Loops :
        /\ isRunning
        /\ stops = 0
        /\ loops[p].pc = "attempt"
        /\ loops[p].call = "health"
        /\ loops[p].retries = MaxRetries
        /\ \A q \in Loops \ {p} : loops[q].pc = "idle"

====
